---- MODULE Spec2Model ----
(***************************************************************************)
(* Model of the two dashboards of the Finance-Apps repository:             *)
(*   - StockAnalayzer/app.py: moving-average crossover markers, last-bar   *)
(*     alert and standing recommendation;                                  *)
(*   - DCF/app.py: discounted-cash-flow valuation followed by a call to a  *)
(*     hosted narrative summarizer.                                        *)
(*                                                                         *)
(* Floating-point values are modelled as exact fractions [num, den].  A    *)
(* denominator of 0 stands for the non-finite floats: 0/0 is NaN, 1/0 is   *)
(* +inf and -1/0 is -inf.  Table columns are sequences; the row with       *)
(* positional (0-based) index i of the source is element i + 1.            *)
(***************************************************************************)
EXTENDS Integers, Sequences, FiniteSets, TLC

\* ------------------------------------------------------------------ bounds
\* Longest price series returned by the data provider.
MaxLen == 6
\* Close prices are drawn from 1..MaxClose.
MaxClose == 3
\* Both moving-average windows are drawn from 1..MaxWindow.
MaxWindow == 3
\* Longest projection period of the DCF model (the slider goes up to 10).
MaxYears == 3

\* ------------------------------------------------------- exact "floats"
NaN == [num |-> 0, den |-> 0]

IsNaN(x) == x.den = 0 /\ x.num = 0

IsFinite(x) == x.den # 0

Abs(n) == IF n < 0 THEN -n ELSE n

RECURSIVE Gcd(_, _)
Gcd(a, b) == IF b = 0 THEN a ELSE Gcd(b, a % b)

Sgn(n) == IF n > 0 THEN 1 ELSE IF n < 0 THEN -1 ELSE 0

\* The fraction n/d in lowest terms with a positive denominator; n/0 is the
\* non-finite value of the sign of n.
Rat(n, d) ==
    IF d = 0 THEN [num |-> Sgn(n), den |-> 0]
    ELSE LET g == Gcd(Abs(n), Abs(d))
         IN  [num |-> Sgn(d) * (n \div g), den |-> Abs(d) \div g]

FromInt(n) == [num |-> n, den |-> 1]

\* a > b on floats: every comparison with NaN is False.
Gt(a, b) ==
    /\ ~IsNaN(a)
    /\ ~IsNaN(b)
    /\ IF IsFinite(a) /\ IsFinite(b) THEN a.num * b.den > b.num * a.den
       ELSE IF IsFinite(a) THEN b.num < 0
       ELSE IF IsFinite(b) THEN a.num > 0
       ELSE a.num > b.num

\* a == k for a float a and an integer k (False for NaN and the infinities).
EqInt(a, k) == IsFinite(a) /\ a.num = k * a.den

\* a * b on floats.
Mul(a, b) ==
    IF ~IsFinite(a) \/ ~IsFinite(b)
    THEN [num |-> Sgn(a.num) * Sgn(b.num), den |-> 0]
    ELSE LET g1 == Gcd(Abs(a.num), b.den)
             g2 == Gcd(Abs(b.num), a.den)
         IN  Rat((a.num \div g1) * (b.num \div g2), (a.den \div g2) * (b.den \div g1))

\* a / b on IEEE floats: x/0 is +inf, -inf or NaN, never an exception.
Div(a, b) ==
    IF IsNaN(a) \/ IsNaN(b) THEN NaN
    ELSE IF ~IsFinite(b)
    THEN (IF IsFinite(a) THEN FromInt(0) ELSE NaN)
    ELSE IF b.num = 0 THEN [num |-> Sgn(a.num), den |-> 0]
    ELSE IF ~IsFinite(a) THEN [num |-> Sgn(a.num) * Sgn(b.num), den |-> 0]
    ELSE Mul(a, Rat(b.den, b.num))

\* a + b on floats.
Add(a, b) ==
    IF ~IsFinite(a) /\ ~IsFinite(b) THEN (IF a.num = b.num THEN a ELSE NaN)
    ELSE IF ~IsFinite(a) THEN a
    ELSE IF ~IsFinite(b) THEN b
    ELSE LET g == Gcd(a.den, b.den)
             l == (a.den \div g) * b.den
         IN  Rat(a.num * (l \div a.den) + b.num * (l \div b.den), l)

Neg(a) == [num |-> -a.num, den |-> a.den]

Sub(a, b) == Add(a, Neg(b))

RECURSIVE Pow(_, _)
\* a ** n for an integer n >= 0.
Pow(a, n) == IF n = 0 THEN FromInt(1) ELSE Mul(a, Pow(a, n - 1))

\* A slider value in percent divided by 100.
Pct(p) == Rat(p, 100)

One == FromInt(1)

\* --------------------------------------------------------------- state
VARIABLES
    pc,              \* position of the stock dashboard script
    Close,           \* data['Close']
    short_window,    \* sidebar input "Short Moving Average"
    long_window,     \* sidebar input "Long Moving Average"
    MAshort,         \* data[f"MA{short_window}"]
    MAlong,          \* data[f"MA{long_window}"]
    Signal,          \* data['Signal']
    Position,        \* data['Position']
    buy_signals,     \* positional indices of the rows of buy_signals
    sell_signals,    \* positional indices of the rows of sell_signals
    alert,           \* what the alert block displayed
    recommendation   \* what the recommendation block displayed

stockVars == <<pc, Close, short_window, long_window, MAshort, MAlong, Signal,
               Position, buy_signals, sell_signals, alert, recommendation>>

\* DCF dashboard.  Money amounts and share counts are in units of 10^9.
VARIABLES
    dcf_pc,                    \* position of the "Generate DCF Model" handler
    free_cash_flow,            \* the starting free cash flow
    fcf_is_python_number,      \* free_cash_flow is the built-in fallback number
    shares_outstanding,
    current_price,
    growth_rate,
    discount_rate,
    terminal_growth_rate,
    projection_years,
    cash_flows,
    discounted_terminal_value,
    total_enterprise_value,
    intrinsic_value_per_share,
    shown                      \* what the page displays, in order

dcfVars == <<dcf_pc, free_cash_flow, fcf_is_python_number, shares_outstanding,
             current_price, growth_rate, discount_rate, terminal_growth_rate,
             projection_years, cash_flows, discounted_terminal_value,
             total_enterprise_value, intrinsic_value_per_share, shown>>

vars == <<stockVars, dcfVars>>

\* Row i (0-based) of a column.
Iloc(col, i) == col[i + 1]

Last(s) == s[Len(s)]

\* ---------------------------------------------- plot_candlestick_with_signals
RECURSIVE SumRange(_, _, _)
\* Sum of close over the 0-based rows lo..hi.
SumRange(close, lo, hi) ==
    IF lo > hi THEN 0 ELSE Iloc(close, hi) + SumRange(close, lo, hi - 1)

\* close.rolling(window=window).mean(): NaN on the first window-1 rows, then
\* the mean of the trailing window rows.  Closes are small integers, for which
\* the float sums are exact and two means compare as the fractions do.
RollingMean(close, window) ==
    [k \in 1..Len(close) |->
        IF k >= window
        THEN Rat(SumRange(close, k - window, k - 1), window)
        ELSE NaN]

\* np.where(short[long_window:] > long[long_window:], 1, -1) written over the
\* rows long_window.. of a column initialised to 0.  The chained assignment is
\* taken to write through to the table, as it does without copy-on-write.
SignalColumn(maShort, maLong, longWindow) ==
    [k \in 1..Len(maShort) |->
        IF k - 1 >= longWindow
        THEN (IF Gt(maShort[k], maLong[k]) THEN 1 ELSE -1)
        ELSE 0]

\* Series.diff(): NaN on the first row, then the difference to the row before.
Diff(col) ==
    [k \in 1..Len(col) |->
        IF k = 1 THEN NaN ELSE FromInt(col[k] - col[k - 1])]

RECURSIVE RowsWhere(_, _, _)
\* The positional indices 0..upto-1 of the rows whose Position equals v, in
\* row order (a boolean-mask selection keeps the order of the table).
RowsWhere(position, v, upto) ==
    IF upto = 0 THEN <<>>
    ELSE LET rest == RowsWhere(position, v, upto - 1)
         IN  IF EqInt(position[upto], v) THEN Append(rest, upto - 1) ELSE rest

\* Fault variant of SellSignals: the sell mask repeats the buy condition.
SellMaskCopied(position) == RowsWhere(position, 2, Len(position))

BuySignals(position) == RowsWhere(position, 2, Len(position))

SellSignals(position) == RowsWhere(position, -2, Len(position))

\* The alert block: reads Position and Close of the last row.  The price is
\* the close itself: an integer close is unchanged by the two-decimal format.
Alert(close, position) ==
    IF close = <<>> THEN [kind |-> "NotShown", price |-> 0]
    ELSE LET last_position == Last(position)
             last_close == Last(close)
         IN  IF EqInt(last_position, 2)
             THEN [kind |-> "BUY", price |-> last_close]
             ELSE IF EqInt(last_position, -2)
             THEN [kind |-> "SELL", price |-> last_close]
             ELSE [kind |-> "NoAlert", price |-> 0]

\* Fault variant of Recommendation: reads the first row of each selection.
RecommendationFirstRow(close, buys, sells) ==
    IF buys # <<>> /\ (sells = <<>> \/ buys[1] > sells[1])
    THEN [kind |-> "BUY", price |-> Iloc(close, buys[1])]
    ELSE IF sells # <<>> /\ (buys = <<>> \/ sells[1] > buys[1])
    THEN [kind |-> "SELL", price |-> Iloc(close, sells[1])]
    ELSE [kind |-> "NoSignal", price |-> 0]

\* The recommendation block: compares the last rows of the two selections.
Recommendation(close, buys, sells) ==
    IF buys # <<>> /\ (sells = <<>> \/ Last(buys) > Last(sells))
    THEN [kind |-> "BUY", price |-> Iloc(close, Last(buys))]
    ELSE IF sells # <<>> /\ (buys = <<>> \/ Last(sells) > Last(buys))
    THEN [kind |-> "SELL", price |-> Iloc(close, Last(sells))]
    ELSE [kind |-> "NoSignal", price |-> 0]

NotShown == [kind |-> "NotShown", price |-> 0]

\* ------------------------------------------------- stock dashboard script
PriceSeries == UNION {[1..n -> 1..MaxClose] : n \in 0..MaxLen}

StockInit ==
    /\ pc = "start"
    /\ Close = <<>>
    /\ short_window = 1
    /\ long_window = 1
    /\ MAshort = <<>>
    /\ MAlong = <<>>
    /\ Signal = <<>>
    /\ Position = <<>>
    /\ buy_signals = <<>>
    /\ sell_signals = <<>>
    /\ alert = NotShown
    /\ recommendation = NotShown

\* data = fetch_stock_data(ticker, start_date, end_date)
FetchStockData ==
    /\ pc = "start"
    /\ UNCHANGED dcfVars
    /\ \E series \in PriceSeries : Close' = series
    /\ pc' = "fetched"
    /\ UNCHANGED <<short_window, long_window, MAshort, MAlong, Signal, Position,
                   buy_signals, sell_signals, alert, recommendation>>

\* The two number inputs of the sidebar.  Their ranges (5..50 and 30..200)
\* overlap and nothing relates one input to the other, so either may be the
\* larger; the model draws both from 1..MaxWindow.
SelectWindows ==
    /\ pc = "fetched"
    /\ UNCHANGED dcfVars
    /\ \E s \in 1..MaxWindow, l \in 1..MaxWindow :
          /\ short_window' = s
          /\ long_window' = l
    /\ pc' = "selected"
    /\ UNCHANGED <<Close, MAshort, MAlong, Signal, Position, buy_signals,
                   sell_signals, alert, recommendation>>

\* if not data.empty: plot_candlestick_with_signals(data, short_window, long_window)
PlotCandlestickWithSignals ==
    /\ pc = "selected"
    /\ UNCHANGED dcfVars
    /\ Close # <<>>
    /\ LET maS == RollingMean(Close, short_window)
           maL == RollingMean(Close, long_window)
           sig == SignalColumn(maS, maL, long_window)
           pos == Diff(sig)
           buys == BuySignals(pos)
           sells == SellSignals(pos)
       IN  /\ MAshort' = maS
           /\ MAlong' = maL
           /\ Signal' = sig
           /\ Position' = pos
           /\ buy_signals' = buys
           /\ sell_signals' = sells
           /\ alert' = Alert(Close, pos)
           /\ recommendation' = Recommendation(Close, buys, sells)
    /\ pc' = "plotted"
    /\ UNCHANGED <<Close, short_window, long_window>>

\* An empty table: the whole visualisation block is skipped.
SkipEmptyData ==
    /\ pc = "selected"
    /\ UNCHANGED dcfVars
    /\ Close = <<>>
    /\ pc' = "skipped"
    /\ UNCHANGED <<Close, short_window, long_window, MAshort, MAlong, Signal,
                   Position, buy_signals, sell_signals, alert, recommendation>>

\* A changed input reruns the script from the top with a fresh table.
Rerun ==
    /\ pc \in {"plotted", "skipped"}
    /\ UNCHANGED dcfVars
    /\ pc' = "start"
    /\ Close' = <<>>
    /\ MAshort' = <<>>
    /\ MAlong' = <<>>
    /\ Signal' = <<>>
    /\ Position' = <<>>
    /\ buy_signals' = <<>>
    /\ sell_signals' = <<>>
    /\ alert' = NotShown
    /\ recommendation' = NotShown
    /\ short_window' = 1
    /\ long_window' = 1

StockNext ==
    \/ FetchStockData
    \/ SelectWindows
    \/ PlotCandlestickWithSignals
    \/ SkipEmptyData
    \/ Rerun

\* ----------------------------------------------------------- DCF dashboard
\* Values the data provider reports (NaN: the row is missing).
ReportedCash == {NaN, FromInt(1), FromInt(3)}
ReportedIncome == {NaN, FromInt(-2)}
ReportedShares == {FromInt(1), FromInt(2)}
ReportedPrice == {NaN, FromInt(2)}

\* Slider positions, in percent; each set lies within the slider's range.
GrowthPcts == {0, 10, 20}
DiscountPcts == {5, 10}
TerminalPcts == {0, 5}

\* The fallback free cash flow of one billion.
DefaultFCF == FromInt(1)

\* free_cash_flow from the fetched rows, with its fallbacks; warned tells
\* whether the missing-data warning is shown.
FreeCashFlow(operating_cash_flow, capex, net_income) ==
    IF IsNaN(operating_cash_flow) \/ IsNaN(capex)
    THEN [warned |-> TRUE,
          fcf |-> IF ~IsNaN(net_income) THEN net_income ELSE DefaultFCF,
          python |-> IsNaN(net_income)]
    ELSE [warned |-> FALSE,
          fcf |-> Sub(operating_cash_flow, capex),
          python |-> FALSE]

\* Fault variant of Projection: discounts the cash flow before growing it.
RECURSIVE ProjectionDiscountsFirst(_, _, _, _, _, _)
ProjectionDiscountsFirst(fcf, g, r, i, years, flows) ==
    IF i = years THEN [fcf |-> fcf, cash_flows |-> flows]
    ELSE LET discounted_cash_flow == Div(fcf, Pow(Add(One, r), i + 1))
             grown == Mul(fcf, Add(One, g))
         IN  ProjectionDiscountsFirst(grown, g, r, i + 1, years,
                                      Append(flows, discounted_cash_flow))

RECURSIVE Projection(_, _, _, _, _, _)
\* The projection loop from iteration i on: grow fcf, discount it by
\* (1 + r) ** (i + 1), append it.
Projection(fcf, g, r, i, years, flows) ==
    IF i = years THEN [fcf |-> fcf, cash_flows |-> flows]
    ELSE LET grown == Mul(fcf, Add(One, g))
             discounted_cash_flow == Div(grown, Pow(Add(One, r), i + 1))
         IN  Projection(grown, g, r, i + 1, years,
                        Append(flows, discounted_cash_flow))

RECURSIVE SumSeq(_)
\* sum(cash_flows)
SumSeq(s) ==
    IF s = <<>> THEN FromInt(0)
    ELSE Add(SumSeq(SubSeq(s, 1, Len(s) - 1)), Last(s))

\* Lines 66-79: the valuation arithmetic.
Valuation(fcf0, g, r, gt, years, shares) ==
    LET p == Projection(fcf0, g, r, 0, years, <<>>)
        terminal_value == Div(Mul(p.fcf, Add(One, gt)), Sub(r, gt))
        dtv == Div(terminal_value, Pow(Add(One, r), years))
        ev == Add(SumSeq(p.cash_flows), dtv)
    IN  [cash_flows |-> p.cash_flows,
         discounted_terminal_value |-> dtv,
         total_enterprise_value |-> ev,
         intrinsic_value_per_share |-> Div(ev, shares)]

\* Dividing the built-in float by zero raises ZeroDivisionError; the array
\* library's float yields a non-finite value instead.
ValuationRaises(isPython, r, gt) == isPython /\ Sub(r, gt) = FromInt(0)

Item(kind, value) == [kind |-> kind, value |-> value]

\* Fault variant of Results: the chart is not drawn with the results.
ResultsChartOmitted(v, price) ==
    <<Item("Enterprise Value", v.total_enterprise_value),
      Item("Intrinsic Value per Share", v.intrinsic_value_per_share),
      Item("Current Market Price per Share", price),
      IF ~IsNaN(price)
      THEN Item("Upside/Downside Potential",
                Mul(Sub(Div(v.intrinsic_value_per_share, price), One), FromInt(100)))
      ELSE Item("Upside/Downside Potential N/A", NaN)>>

\* Lines 81-100: what the handler writes once the arithmetic is done.
Results(v, price) ==
    <<Item("Enterprise Value", v.total_enterprise_value),
      Item("Intrinsic Value per Share", v.intrinsic_value_per_share),
      Item("Current Market Price per Share", price),
      IF ~IsNaN(price)
      THEN Item("Upside/Downside Potential",
                Mul(Sub(Div(v.intrinsic_value_per_share, price), One), FromInt(100)))
      ELSE Item("Upside/Downside Potential N/A", NaN),
      Item("Projected Free Cash Flows",
           [bars |-> v.cash_flows, marker |-> v.discounted_terminal_value])>>

DcfInit ==
    /\ dcf_pc = "idle"
    /\ free_cash_flow = NaN
    /\ fcf_is_python_number = FALSE
    /\ shares_outstanding = NaN
    /\ current_price = NaN
    /\ growth_rate = NaN
    /\ discount_rate = NaN
    /\ terminal_growth_rate = NaN
    /\ projection_years = 0
    /\ cash_flows = <<>>
    /\ discounted_terminal_value = NaN
    /\ total_enterprise_value = NaN
    /\ intrinsic_value_per_share = NaN
    /\ shown = <<>>

valuationVars == <<growth_rate, discount_rate, terminal_growth_rate,
                   projection_years, cash_flows, discounted_terminal_value,
                   total_enterprise_value, intrinsic_value_per_share>>

fetchVars == <<free_cash_flow, fcf_is_python_number, shares_outstanding,
               current_price>>

\* Lines 26-57: the button is pressed and the data provider answers.
FetchFinancials ==
    /\ dcf_pc = "idle"
    /\ UNCHANGED stockVars
    /\ \E ocf \in ReportedCash, capex \in ReportedCash, ni \in ReportedIncome,
          shares \in ReportedShares, price \in ReportedPrice :
          LET f == FreeCashFlow(ocf, capex, ni)
          IN  /\ free_cash_flow' = f.fcf
              /\ fcf_is_python_number' = f.python
              /\ shares_outstanding' = shares
              /\ current_price' = price
              /\ shown' = IF f.warned
                          THEN <<Item("warning", NaN)>>
                          ELSE <<>>
    /\ dcf_pc' = "fetched"
    /\ UNCHANGED valuationVars

\* Lines 28-47: the data provider raises while the statements are read,
\* before anything is assigned or shown; the except clause reports it.
FetchRaises ==
    /\ dcf_pc = "idle"
    /\ UNCHANGED stockVars
    /\ shown' = <<Item("error", NaN)>>
    /\ dcf_pc' = "done"
    /\ UNCHANGED <<fetchVars, valuationVars>>

\* Lines 50-57: the statements were read, free_cash_flow is assigned (and the
\* missing-data warning shown), then stock.info raises: at line 56, with
\* shares_outstanding not yet assigned, or at line 57, after it.
InfoRaises ==
    /\ dcf_pc = "idle"
    /\ UNCHANGED stockVars
    /\ \E ocf \in ReportedCash, capex \in ReportedCash, ni \in ReportedIncome,
          shares \in ReportedShares \cup {shares_outstanding} :
          LET f == FreeCashFlow(ocf, capex, ni)
          IN  /\ free_cash_flow' = f.fcf
              /\ fcf_is_python_number' = f.python
              /\ shares_outstanding' = shares
              /\ shown' = IF f.warned
                          THEN <<Item("warning", NaN), Item("error", NaN)>>
                          ELSE <<Item("error", NaN)>>
    /\ dcf_pc' = "done"
    /\ UNCHANGED <<current_price, valuationVars>>

\* Lines 59-100: read the sliders, run the arithmetic, display the results.
GenerateValuation ==
    /\ dcf_pc = "fetched"
    /\ UNCHANGED stockVars
    /\ \E g \in GrowthPcts, r \in DiscountPcts, gt \in TerminalPcts,
          years \in 1..MaxYears :
          /\ growth_rate' = Pct(g)
          /\ discount_rate' = Pct(r)
          /\ terminal_growth_rate' = Pct(gt)
          /\ projection_years' = years
          /\ IF ValuationRaises(fcf_is_python_number, Pct(r), Pct(gt))
             THEN \* The loop has filled cash_flows before line 75 raises.
                  /\ cash_flows' = Projection(free_cash_flow, Pct(g), Pct(r), 0,
                                              years, <<>>).cash_flows
                  /\ shown' = Append(shown, Item("error", NaN))
                  /\ dcf_pc' = "done"
                  /\ UNCHANGED <<discounted_terminal_value, total_enterprise_value,
                                 intrinsic_value_per_share>>
             ELSE LET v == Valuation(free_cash_flow, Pct(g), Pct(r), Pct(gt),
                                     years, shares_outstanding)
                  IN  /\ cash_flows' = v.cash_flows
                      /\ discounted_terminal_value' = v.discounted_terminal_value
                      /\ total_enterprise_value' = v.total_enterprise_value
                      /\ intrinsic_value_per_share' = v.intrinsic_value_per_share
                      /\ shown' = shown \o Results(v, current_price)
                      /\ dcf_pc' = "displayed"
    /\ UNCHANGED fetchVars

\* Lines 102-118: the summarizer answers and its text is written.
SummarizerReturns ==
    /\ dcf_pc = "displayed"
    /\ UNCHANGED stockVars
    /\ shown' = Append(shown, Item("commentary", NaN))
    /\ dcf_pc' = "done"
    /\ UNCHANGED <<fetchVars, valuationVars>>

\* Lines 104-121: the summarizer call raises; the except clause reports it.
SummarizerRaises ==
    /\ dcf_pc = "displayed"
    /\ UNCHANGED stockVars
    /\ shown' = Append(shown, Item("error", NaN))
    /\ dcf_pc' = "done"
    /\ UNCHANGED <<fetchVars, valuationVars>>

\* The next rerun of the script starts from an empty page.
DcfRerun ==
    /\ dcf_pc = "done"
    /\ UNCHANGED stockVars
    /\ dcf_pc' = "idle"
    /\ free_cash_flow' = NaN
    /\ fcf_is_python_number' = FALSE
    /\ shares_outstanding' = NaN
    /\ current_price' = NaN
    /\ growth_rate' = NaN
    /\ discount_rate' = NaN
    /\ terminal_growth_rate' = NaN
    /\ projection_years' = 0
    /\ cash_flows' = <<>>
    /\ discounted_terminal_value' = NaN
    /\ total_enterprise_value' = NaN
    /\ intrinsic_value_per_share' = NaN
    /\ shown' = <<>>

DcfNext ==
    \/ FetchFinancials
    \/ FetchRaises
    \/ InfoRaises
    \/ GenerateValuation
    \/ SummarizerReturns
    \/ SummarizerRaises
    \/ DcfRerun

\* ------------------------------------------------------- specifications
Init == StockInit /\ DcfInit

\* The stock dashboard.
Spec == Init /\ [][StockNext]_vars

\* The DCF dashboard.
SpecDCF == Init /\ [][DcfNext]_vars

\* ------------------------------------------------ the specification's terms
Range(s) == {s[k] : k \in DOMAIN s}

\* A SignalState exists at row i once both moving averages are defined there.
StateDefined(i) ==
    /\ i >= 0
    /\ i < Len(Close)
    /\ ~IsNaN(Iloc(MAshort, i))
    /\ ~IsNaN(Iloc(MAlong, i))

\* Bullish iff shortMA > longMA, else Bearish (a tie is Bearish).
SignalState(i) ==
    IF ~StateDefined(i) THEN "Undefined"
    ELSE IF Gt(Iloc(MAshort, i), Iloc(MAlong, i)) THEN "Bullish"
    ELSE "Bearish"

\* The explicit state-transition rule: an event at row i when the states at
\* rows i-1 and i are both defined and differ, tagged by the new state.
ExplicitCrossings ==
    {<<i, IF SignalState(i) = "Bullish" THEN "BuyCrossing" ELSE "SellCrossing">> :
        i \in {j \in 1..(Len(Close) - 1) :
                  /\ StateDefined(j - 1)
                  /\ StateDefined(j)
                  /\ SignalState(j) # SignalState(j - 1)}}

\* The markers the dashboard draws, as tagged events.
EmittedCrossings ==
    {<<i, "BuyCrossing">> : i \in Range(buy_signals)}
        \cup {<<i, "SellCrossing">> : i \in Range(sell_signals)}

CrossingRows == Range(buy_signals) \cup Range(sell_signals)

StrictlyIncreasing(s) == \A k \in 1..(Len(s) - 1) : s[k] < s[k + 1]

SetMax(S) == CHOOSE m \in S : \A x \in S : x <= m

\* ------------------------------------------------------------- claims
\* C1: for 1 <= shortWindow <= longWindow the markers selected by
\* Position == 2 / == -2 are exactly the events of the explicit
\* state-transition rule, including a state change between row longWindow-1
\* (the first defined row) and row longWindow.
C1_DiffMatchesExplicitRule ==
    (pc = "plotted" /\ 1 <= short_window /\ short_window <= long_window)
        => EmittedCrossings = ExplicitCrossings

\* C2: for longWindow >= shortWindow >= 1 and longWindow <= len(series) the
\* number of rows whose Signal is +1 or -1 equals len(series) - longWindow + 1.
C2_DefinedStateCount ==
    (/\ pc = "plotted"
     /\ long_window >= short_window
     /\ short_window >= 1
     /\ long_window <= Len(Close))
        => Cardinality({k \in DOMAIN Signal : Signal[k] \in {1, -1}})
               = Len(Close) - long_window + 1

\* C3: for every pair of window lengths, no buy or sell marker sits on a row
\* whose preceding row has state Undefined (a moving average not yet defined).
C3_NoCrossingAfterUndefined ==
    pc = "plotted"
        => \A i \in CrossingRows : SignalState(i - 1) # "Undefined"

\* C4: for shortWindow < longWindow the buy and sell markers are strictly
\* ordered by row, no row carries both, and between two markers of one tag
\* there is a marker of the other tag.
C4_CrossingsAlternate ==
    (pc = "plotted" /\ short_window < long_window)
        => /\ StrictlyIncreasing(buy_signals)
           /\ StrictlyIncreasing(sell_signals)
           /\ Range(buy_signals) \cap Range(sell_signals) = {}
           /\ \A a, b \in Range(buy_signals) :
                 a < b => \E c \in Range(sell_signals) : a < c /\ c < b
           /\ \A a, b \in Range(sell_signals) :
                 a < b => \E c \in Range(buy_signals) : a < c /\ c < b

\* Two markers of different tags were drawn for windows short < long.
C4_Witness ==
    /\ pc = "plotted"
    /\ short_window < long_window
    /\ buy_signals # <<>>
    /\ sell_signals # <<>>

\* C5: the recommendation is NoSignal when there is no marker; otherwise it is
\* Buy (resp. Sell) at the close of the marker with the highest row when that
\* marker is a buy (resp. sell) marker, however far it is from the last row.
C5_RecommendationFromLatestCrossing ==
    pc = "plotted"
        => /\ recommendation.kind \in {"BUY", "SELL", "NoSignal"}
           /\ IF CrossingRows = {}
              THEN recommendation = [kind |-> "NoSignal", price |-> 0]
              ELSE LET m == SetMax(CrossingRows)
                   IN  recommendation =
                           [kind |-> IF m \in Range(buy_signals) THEN "BUY" ELSE "SELL",
                            price |-> Iloc(Close, m)]

\* A Buy recommendation from a marker that is not on the last row, with an
\* older sell marker before it.
C5_Witness ==
    /\ pc = "plotted"
    /\ recommendation.kind = "BUY"
    /\ sell_signals # <<>>
    /\ Last(buy_signals) < Len(Close) - 1
    /\ Iloc(Close, Last(buy_signals)) # Last(Close)

\* C6: for every non-empty series a BUY (resp. SELL) alert is shown iff a
\* BuyCrossing (resp. SellCrossing) is anchored at the last row, i.e. the
\* SignalState of the last row is Bullish (resp. Bearish) and differs from the
\* SignalState of the row before it, both being defined; in every other case
\* the alert block shows NoAlert.
C6_AlertIffLastBarCrossing ==
    pc = "plotted"
        => LET n == Len(Close)
               crossed == /\ n >= 2
                          /\ StateDefined(n - 2)
                          /\ StateDefined(n - 1)
                          /\ SignalState(n - 1) # SignalState(n - 2)
           IN  /\ alert.kind = "BUY" <=> (crossed /\ SignalState(n - 1) = "Bullish")
               /\ alert.kind = "SELL" <=> (crossed /\ SignalState(n - 1) = "Bearish")
               /\ alert.kind = "NoAlert" <=> ~crossed

\* C7: with shortWindow > longWindow (or shortWindow < 1) the computation
\* fails before producing any moving average, signal, marker, alert or
\* recommendation.
C7_WindowOrderRejected ==
    (pc = "plotted" /\ (short_window > long_window \/ short_window < 1))
        => /\ MAshort = <<>>
           /\ MAlong = <<>>
           /\ Signal = <<>>
           /\ alert = NotShown
           /\ recommendation = NotShown

\* C8: with a window that is non-positive or longer than the series the
\* computation fails; it never yields an all-undefined moving average
\* followed by a "no signal" / "no recommendation" display.
C8_ShortSeriesRejected ==
    (/\ pc = "plotted"
     /\ \E w \in {short_window, long_window} : w <= 0 \/ w > Len(Close))
        => /\ alert.kind # "NoAlert"
           /\ recommendation.kind # "NoSignal"
           /\ \A k \in DOMAIN MAlong : ~IsNaN(MAlong[k])
\* The page shows, one after the other, the enterprise value, the intrinsic
\* value per share, the market price, the upside/downside line and the
\* cash-flow chart of the valuation held in the handler's variables.
ResultsOnPage ==
    \E k \in 1..(Len(shown) - 4) :
        /\ shown[k].kind = "Enterprise Value"
        /\ shown[k].value = total_enterprise_value
        /\ shown[k + 1].kind = "Intrinsic Value per Share"
        /\ shown[k + 1].value = intrinsic_value_per_share
        /\ shown[k + 2].kind = "Current Market Price per Share"
        /\ shown[k + 3].kind \in {"Upside/Downside Potential",
                                  "Upside/Downside Potential N/A"}
        /\ shown[k + 4].kind = "Projected Free Cash Flows"
        /\ shown[k + 4].value = [bars |-> cash_flows,
                                 marker |-> discounted_terminal_value]

\* C9: whenever the valuation arithmetic succeeded, the results and the chart
\* are on the page before the summarizer is called; a step in which the
\* summarizer call raises keeps everything already on the page and every
\* computed value, and adds only an error message.
C9_SummarizerFailureIsolated ==
    [][/\ dcf_pc' = "displayed" => ResultsOnPage'
       /\ (dcf_pc = "displayed" /\ dcf_pc' = "done" /\ Last(shown').kind = "error")
             => /\ shown' = Append(shown, Item("error", NaN))
                /\ UNCHANGED valuationVars
                /\ ResultsOnPage']_vars

\* The summarizer call raised after the results had been displayed.
C9_Witness ==
    /\ dcf_pc = "done"
    /\ Len(shown) >= 6
    /\ Last(shown).kind = "error"
    /\ ResultsOnPage
    /\ IsFinite(total_enterprise_value)

RECURSIVE DiscountedSum(_, _, _, _)
\* The sum over t = 1..n of fcf0 * (1+g)^t / (1+r)^t.
DiscountedSum(fcf0, g, r, n) ==
    IF n = 0 THEN FromInt(0)
    ELSE Add(DiscountedSum(fcf0, g, r, n - 1),
             Div(Mul(fcf0, Pow(Add(One, g), n)), Pow(Add(One, r), n)))

\* The enterprise value as the specification writes it.
FormulaEV(fcf0, g, r, gt, n) ==
    LET fcfN == Mul(fcf0, Pow(Add(One, g), n))
        TerminalValue == Div(Mul(fcfN, Add(One, gt)), Sub(r, gt))
    IN  Add(DiscountedSum(fcf0, g, r, n), Div(TerminalValue, Pow(Add(One, r), n)))

\* C10: for every starting free cash flow, growth rate g, discount rate r,
\* terminal growth rate g_term # r and horizon N, the enterprise value of the
\* loop equals sum_{t=1..N} FCF_t/(1+r)^t + TerminalValue/(1+r)^N with
\* FCF_t = FCF_0*(1+g)^t and TerminalValue = FCF_N*(1+g_term)/(r - g_term).
C10_EnterpriseValueFormula ==
    (dcf_pc = "displayed" /\ terminal_growth_rate # discount_rate)
        => total_enterprise_value =
               FormulaEV(free_cash_flow, growth_rate, discount_rate,
                         terminal_growth_rate, projection_years)

\* A valuation over several years with growth, discounting and a non-zero
\* starting cash flow.
C10_Witness ==
    /\ dcf_pc = "displayed"
    /\ terminal_growth_rate # discount_rate
    /\ projection_years >= 2
    /\ growth_rate.num > 0
    /\ terminal_growth_rate.num > 0
    /\ free_cash_flow.num < 0
    /\ IsFinite(total_enterprise_value)
====
